---- MODULE Spec2Model ----
(***************************************************************************)
(* CycleGANModel (CellEnMon/models/cycle_gan_model.py): the training step  *)
(* controller optimize_parameters, the generator loss composer backward_G, *)
(* the critic passes backward_D_A / backward_D_B and the replay buffer     *)
(* SignalPool they query.                                                  *)
(*                                                                         *)
(* A tensor is a sequence over its first (batch) dimension; every sample   *)
(* is one number.  Numbers are in units of 1/240, so that the threshold    *)
(* th = 0.25 is 60 and a mean over 1..4 elements of multiples of 12 is     *)
(* exact.  The parameters of a network are abstracted to a version that    *)
(* an optimizer step advances; a gradient to the number of backward passes *)
(* accumulated since it was last zeroed.                                   *)
(***************************************************************************)
EXTENDS Integers, Sequences, FiniteSets

VARIABLES
    opt,            \* the experiment flags: pool_size, lambda_A, lambda_B, lambda_identity
    pc,             \* position inside optimize_parameters ("idle", "done", "aborted" at rest)
    is_train,       \* the is_train argument of the call in progress (or of the last call)
    calls,          \* number of optimize_parameters calls started
    param,          \* version of the parameters of netG_A, netG_B, netD_A, netD_B
    grad,           \* accumulated backward passes per network since the last zero_grad
    requires_grad,  \* trainability flag of netD_A, netD_B
    real_A, real_B, \* the current input tensors (<<>> before the first set_input)
    data_transformation,    \* the attribute self.data_transformation exists
    cuda,           \* a CUDA device is available to Tensor.cuda()
    error,          \* the exception that ended the last operation ("none" when none did)
    netG,           \* the maps netG_A and netG_B compute with their current parameters
    fake_A, fake_B, rec_A, rec_B,   \* the tensors the forward pass computes
    masked_rec_B,   \* the tensor loss_cycle_B compares with real_B
    loss,           \* loss_idt_A, loss_idt_B, loss_cycle_A, loss_cycle_B
    fake_A_pool, fake_B_pool,       \* SignalPool.images of the two replay buffers
    last_query,     \* the last SignalPool.query call: pool, fill before, batch, return, modes
    n_queries,      \* number of query calls made on fake_B_pool
    all_single,     \* every query on fake_B_pool so far had a single-element batch
    trace           \* the statements the call in progress has executed, in order

vars == <<opt, pc, is_train, calls, param, grad, requires_grad, real_A, real_B,
          data_transformation, cuda, error, netG, fake_A, fake_B, rec_A, rec_B, masked_rec_B, loss, fake_A_pool,
          fake_B_pool, last_query, n_queries, all_single, trace>>

(***************************************************************************)
(* Bounds.                                                                 *)
(***************************************************************************)
MaxBatch == 2       \* largest batch dimension of an input tensor
MaxCalls == 3       \* optimize_parameters calls in the controller specification
MaxPool == 2        \* largest configured pool_size in the replay-buffer specification
MaxQueries == 3     \* query calls in the replay-buffer specification
LossLen == 1        \* largest batch dimension in the loss-composer specification

CtlVals == {72}                 \* sample values in the controller specification
PoolVals == {12, 24}            \* sample values in the replay-buffer specification
LossVals == {0, 60, 72}         \* sample values in the loss-composer specification
LambdaVals == {10, 5}           \* configured --lambda_A / --lambda_B
LambdaIdtVals == {0, 1}         \* configured --lambda_identity

Nets == {"G_A", "G_B", "D_A", "D_B"}
Critics == {"D_A", "D_B"}

(***************************************************************************)
(* Tensors.                                                                *)
(***************************************************************************)
Shape(t) == Len(t)

TensorsOfShape(V, n) == [1..n -> V]

Tensors(V, max) == UNION {TensorsOfShape(V, n) : n \in 1..max}

Abs(x) == IF x < 0 THEN -x ELSE x

RECURSIVE SumAbsDiff(_, _, _)
SumAbsDiff(x, y, i) ==
    IF i = 0 THEN 0 ELSE Abs(x[i] - y[i]) + SumAbsDiff(x, y, i - 1)

\* torch.nn.L1Loss(): the mean absolute difference of two tensors of one shape
L1Loss(x, y) == SumAbsDiff(x, y, Len(x)) \div Len(x)

(***************************************************************************)
(* The replay buffer SignalPool (CellEnMon/util/image_pool.py).            *)
(* The capacity check is made once per query, on the buffer as it is       *)
(* before the call, and holds for the whole batch.  Below capacity every   *)
(* sample is appended and served (mode "append"); at capacity (mode        *)
(* "swap") the random draw c of a sample either names a slot, whose stored *)
(* sample is served and overwritten by the new one, or is 0, and the new   *)
(* sample is served and the buffer left alone.                             *)
(***************************************************************************)
NotYetFull(images, pool_size) == Len(images) < pool_size

QueryStep(st, image, c, append) ==
    IF append
    THEN [images |-> Append(st.images, image),
          ret    |-> Append(st.ret, image),
          modes  |-> Append(st.modes, "append")]
    ELSE IF c \in DOMAIN st.images
    THEN [images |-> [st.images EXCEPT ![c] = image],
          ret    |-> Append(st.ret, st.images[c]),
          modes  |-> Append(st.modes, "swap")]
    ELSE [images |-> st.images,
          ret    |-> Append(st.ret, image),
          modes  |-> Append(st.modes, "swap")]

\* mutant: the capacity check is repeated for every sample, on the buffer as
\* the samples before it have left it
RECURSIVE QueryLoop_perSample(_, _, _, _, _, _)
QueryLoop_perSample(st, batch, choice, pool_size, append, i) ==
    IF i > Len(batch) THEN st
    ELSE QueryLoop_perSample(
            QueryStep(st, batch[i], choice[i], NotYetFull(st.images, pool_size)),
            batch, choice, pool_size, append, i + 1)

RECURSIVE QueryLoop(_, _, _, _, _, _)
QueryLoop(st, batch, choice, pool_size, append, i) ==
    IF i > Len(batch) THEN st
    ELSE QueryLoop(QueryStep(st, batch[i], choice[i], append),
                   batch, choice, pool_size, append, i + 1)

IdentityMode(pool_size) == pool_size <= 0

\* mutant: in identity mode the batch is returned but also recorded
query_recording(images, pool_size, batch, choice) ==
    IF IdentityMode(pool_size)
    THEN [images |-> images \o batch, ret |-> batch, modes |-> <<>>]
    ELSE QueryLoop([images |-> images, ret |-> <<>>, modes |-> <<>>],
                   batch, choice, pool_size, NotYetFull(images, pool_size), 1)

\* SignalPool.query: the buffer after the call, the batch returned, and the
\* mode each sample was handled in
query(images, pool_size, batch, choice) ==
    IF IdentityMode(pool_size)
    THEN [images |-> images, ret |-> batch, modes |-> <<>>]
    ELSE QueryLoop([images |-> images, ret |-> <<>>, modes |-> <<>>],
                   batch, choice, pool_size, NotYetFull(images, pool_size), 1)

\* the random draws of one query call, one per sample of the batch and made
\* only at capacity: 0 (no swap), or an existing slot of the buffer
Choices(images, pool_size, batch) ==
    [1..Len(batch) ->
        IF IdentityMode(pool_size) \/ NotYetFull(images, pool_size)
        THEN {0} ELSE 0..Len(images)]

QueryRecord(name, images, batch, q) ==
    [pool |-> name, before |-> Len(images), batch |-> batch,
     ret |-> q.ret, modes |-> q.modes]

NoQuery == [pool |-> "none", before |-> 0, batch |-> <<>>, ret |-> <<>>, modes |-> <<>>]

(***************************************************************************)
(* The loss composer, backward_G.                                          *)
(***************************************************************************)
th == 60

lambda_A == 10

lambda_B == 10

\* mutant: the mask is taken from rec_B itself
ThresholdRecB_onRecB(rB, recB) ==
    [i \in 1..Len(recB) |-> IF recB[i] > th THEN recB[i] ELSE 0]

\* torch.where(self.real_B > th, self.rec_B, torch.zeros_like(self.rec_B))
ThresholdRecB(rB, recB) ==
    [i \in 1..Len(recB) |-> IF rB[i] > th THEN recB[i] ELSE 0]

\* mutant: the assertion is gone
ShapesAgree_unchecked(fB, rB) == TRUE

\* the assertion of backward_G on the auxiliary classification signal
\* sigmoid(fake_B), which has the shape of fake_B
ShapesAgree(fB, rB) == Shape(fB) = Shape(rB)

LossCycleA(rA, recA) == L1Loss(rA, recA) * lambda_A

LossCycleB(rB, masked) == L1Loss(rB, masked) * lambda_B

LossIdtA(idtA, rB, lambda_idt) == L1Loss(idtA, rB) * lambda_B * lambda_idt

LossIdtB(idtB, rA, lambda_idt) == L1Loss(idtB, rA) * lambda_A * lambda_idt

\* a translator applied to a batch: the same map on every sample
Apply(g, t) == [i \in 1..Len(t) |-> g[t[i]]]

\* the maps the two translators may compute on samples of V
Translators(V) == [A : [V -> V], B : [V -> V]]

(***************************************************************************)
(* The optimizers: the networks whose parameters each one holds.           *)
(***************************************************************************)
optimizer_G_params == {"G_A", "G_B"}

\* mutant: the critic optimizer is built over every network's parameters
optimizer_D_params_all == {"G_A", "G_B", "D_A", "D_B"}

optimizer_D_params == {"D_A", "D_B"}

\* optimizer.step(): every held parameter with a gradient moves
Step(p, g, held) == [n \in Nets |-> IF n \in held /\ g[n] > 0 THEN p[n] + 1 ELSE p[n]]

\* optimizer.zero_grad()
ZeroGrad(g, held) == [n \in Nets |-> IF n \in held THEN 0 ELSE g[n]]

\* loss.backward(): the networks in the graph that require gradients accumulate one
Backward(g, inGraph, rg) ==
    [n \in Nets |-> IF n \in inGraph /\ (n \in Critics => rg[n]) THEN g[n] + 1 ELSE g[n]]

AtRest == pc \in {"idle", "done", "aborted"}

\* self.real_A exists: line 104 of set_input has run
HasRealA == real_A # <<>>

\* self.real_B exists: line 105 of set_input has run
HasRealB == real_B # <<>>

\* both inputs of forward exist
HasInput == HasRealA /\ HasRealB

\* How far a call of set_input gets.  Each read of the input dictionary raises
\* KeyError when the key is missing, and the assignments before it stay.
\*   KeyError_104  first key missing, nothing assigned
\*   KeyError_105  real_A assigned, second key missing
\*   KeyError_106  real_A and real_B assigned, a key of lines 106-128 missing
\*   test          isTrain false, returns after line 108
\*   KeyError_129  data_transformation assigned, metadata_transformation missing
\*   train         isTrain true, every line ran
SetInputOutcomes ==
    {"KeyError_104", "KeyError_105", "KeyError_106", "test", "KeyError_129", "train"}

\* the outcomes in which line 104, line 105 and line 128 have assigned
AssignsRealA == SetInputOutcomes \ {"KeyError_104"}
AssignsRealB == AssignsRealA \ {"KeyError_105"}
AssignsDataTransformation == {"KeyError_129", "train"}

(***************************************************************************)
(* Actions: set_input and the statements of optimize_parameters.           *)
(***************************************************************************)
set_input(V) ==
    /\ AtRest
    /\ \E a \in Tensors(V, MaxBatch), b \in Tensors(V, MaxBatch), outcome \in SetInputOutcomes :
          /\ real_A' = (IF outcome \in AssignsRealA THEN a ELSE real_A)
          /\ real_B' = (IF outcome \in AssignsRealB THEN b ELSE real_B)
          /\ data_transformation' =
                (data_transformation \/ outcome \in AssignsDataTransformation)
          /\ error' = (IF outcome \in {"test", "train"} THEN "none" ELSE "KeyError")
    /\ pc' = "idle"
    /\ UNCHANGED <<opt, cuda, netG, is_train, calls, param, grad, requires_grad, fake_A, fake_B,
                   rec_A, rec_B, masked_rec_B, loss, fake_A_pool, fake_B_pool,
                   last_query, n_queries, all_single, trace>>

optimize_parameters ==
    /\ AtRest
    /\ calls < MaxCalls
    /\ \E t \in BOOLEAN : is_train' = t
    /\ calls' = calls + 1
    /\ pc' = "forward"
    /\ trace' = <<>>
    /\ error' = "none"
    /\ UNCHANGED <<opt, cuda, data_transformation, netG, param, grad, requires_grad, real_A, real_B, fake_A, fake_B,
                   rec_A, rec_B, masked_rec_B, loss, fake_A_pool, fake_B_pool,
                   last_query, n_queries, all_single>>

\* mutant: the forward pass is followed by the training statements whatever is_train
forward_alwaysTrains(V) ==
    /\ pc = "forward"
    /\ IF ~HasRealA
       THEN /\ pc' = "aborted"
            /\ error' = "AttributeError"
            /\ UNCHANGED <<netG, fake_A, fake_B, rec_A, rec_B>>
       ELSE \E g \in Translators(V) :
              /\ netG' = g
              /\ fake_B' = Apply(g.A, real_A)
              /\ rec_A' = Apply(g.B, Apply(g.A, real_A))
              /\ IF ~HasRealB
                 THEN /\ pc' = "aborted"
                      /\ error' = "AttributeError"
                      /\ UNCHANGED <<fake_A, rec_B>>
                 ELSE /\ fake_A' = Apply(g.B, real_B)
                      /\ rec_B' = Apply(g.A, Apply(g.B, real_B))
                      /\ pc' = "set_requires_grad_False"
                      /\ error' = "none"
    /\ trace' = Append(trace, "forward")
    /\ UNCHANGED <<opt, cuda, data_transformation, is_train, calls, param, grad,
                   requires_grad, real_A, real_B, masked_rec_B, loss, fake_A_pool, fake_B_pool, last_query,
                   n_queries, all_single>>

forward(V) ==
    /\ pc = "forward"
    /\ IF ~HasRealA
       THEN /\ pc' = "aborted"
            /\ error' = "AttributeError"
            /\ UNCHANGED <<netG, fake_A, fake_B, rec_A, rec_B>>
       ELSE \E g \in Translators(V) :
              /\ netG' = g
              /\ fake_B' = Apply(g.A, real_A)
              /\ rec_A' = Apply(g.B, Apply(g.A, real_A))
              /\ IF ~HasRealB
                 THEN /\ pc' = "aborted"
                      /\ error' = "AttributeError"
                      /\ UNCHANGED <<fake_A, rec_B>>
                 ELSE /\ fake_A' = Apply(g.B, real_B)
                      /\ rec_B' = Apply(g.A, Apply(g.B, real_B))
                      /\ pc' = (IF is_train THEN "set_requires_grad_False" ELSE "done")
                      /\ error' = "none"
    /\ trace' = Append(trace, "forward")
    /\ UNCHANGED <<opt, cuda, data_transformation, is_train, calls, param, grad,
                   requires_grad, real_A, real_B, masked_rec_B, loss, fake_A_pool, fake_B_pool, last_query,
                   n_queries, all_single>>

set_requires_grad_False ==
    /\ pc = "set_requires_grad_False"
    /\ requires_grad' = [d \in Critics |-> FALSE]
    /\ pc' = "optimizer_G_zero_grad"
    /\ trace' = Append(trace, "set_requires_grad_False")
    /\ UNCHANGED <<opt, cuda, data_transformation, error, netG, is_train, calls, param, grad, real_A, real_B, fake_A, fake_B,
                   rec_A, rec_B, masked_rec_B, loss, fake_A_pool, fake_B_pool,
                   last_query, n_queries, all_single>>

optimizer_G_zero_grad ==
    /\ pc = "optimizer_G_zero_grad"
    /\ grad' = ZeroGrad(grad, optimizer_G_params)
    /\ pc' = "backward_G"
    /\ trace' = Append(trace, "optimizer_G_zero_grad")
    /\ UNCHANGED <<opt, cuda, data_transformation, error, netG, is_train, calls, param, requires_grad, real_A, real_B, fake_A,
                   fake_B, rec_A, rec_B, masked_rec_B, loss, fake_A_pool, fake_B_pool,
                   last_query, n_queries, all_single>>

\* the first statement of backward_G that raises, in program order: the shape
\* assertion, the read of self.data_transformation, the move of mmin to CUDA
backward_G_raises ==
    IF ~ShapesAgree(fake_B, real_B) THEN "AssertionError"
    ELSE IF ~data_transformation THEN "AttributeError"
    ELSE IF ~cuda THEN "CudaError"
    ELSE "none"

backward_G ==
    /\ pc = "backward_G"
    /\ LET lambda_idt == opt.lambda_identity
           idt == IF lambda_idt > 0
                  THEN [A |-> LossIdtA(Apply(netG.A, real_B), real_B, lambda_idt),
                        B |-> LossIdtB(Apply(netG.B, real_A), real_A, lambda_idt)]
                  ELSE [A |-> 0, B |-> 0]
           masked == ThresholdRecB(real_B, rec_B)
           raised == backward_G_raises
       IN  IF raised = "none"
           THEN /\ masked_rec_B' = masked
                /\ loss' = [idt_A |-> idt.A, idt_B |-> idt.B,
                            cycle_A |-> LossCycleA(real_A, rec_A),
                            cycle_B |-> LossCycleB(real_B, masked)]
                /\ grad' = Backward(grad, Nets, requires_grad)
                /\ pc' = "optimizer_G_step"
                /\ error' = "none"
           ELSE /\ loss' = [loss EXCEPT !.idt_A = idt.A, !.idt_B = idt.B]
                /\ pc' = "aborted"
                /\ error' = raised
                /\ UNCHANGED <<masked_rec_B, grad>>
    /\ trace' = Append(trace, "backward_G")
    /\ UNCHANGED <<opt, cuda, data_transformation, netG, is_train, calls, param, requires_grad, real_A, real_B, fake_A,
                   fake_B, rec_A, rec_B, fake_A_pool, fake_B_pool, last_query,
                   n_queries, all_single>>

optimizer_G_step ==
    /\ pc = "optimizer_G_step"
    /\ param' = Step(param, grad, optimizer_G_params)
    /\ pc' = "set_requires_grad_True"
    /\ trace' = Append(trace, "optimizer_G_step")
    /\ UNCHANGED <<opt, cuda, data_transformation, error, netG, is_train, calls, grad, requires_grad, real_A, real_B, fake_A,
                   fake_B, rec_A, rec_B, masked_rec_B, loss, fake_A_pool, fake_B_pool,
                   last_query, n_queries, all_single>>

\* mutant: only netD_A is made trainable again
set_requires_grad_True_onlyDA ==
    /\ pc = "set_requires_grad_True"
    /\ requires_grad' = [requires_grad EXCEPT !["D_A"] = TRUE]
    /\ pc' = "optimizer_D_zero_grad"
    /\ trace' = Append(trace, "set_requires_grad_True")
    /\ UNCHANGED <<opt, cuda, data_transformation, error, netG, is_train, calls, param, grad, real_A, real_B, fake_A, fake_B,
                   rec_A, rec_B, masked_rec_B, loss, fake_A_pool, fake_B_pool,
                   last_query, n_queries, all_single>>

set_requires_grad_True ==
    /\ pc = "set_requires_grad_True"
    /\ requires_grad' = [d \in Critics |-> TRUE]
    /\ pc' = "optimizer_D_zero_grad"
    /\ trace' = Append(trace, "set_requires_grad_True")
    /\ UNCHANGED <<opt, cuda, data_transformation, error, netG, is_train, calls, param, grad, real_A, real_B, fake_A, fake_B,
                   rec_A, rec_B, masked_rec_B, loss, fake_A_pool, fake_B_pool,
                   last_query, n_queries, all_single>>

optimizer_D_zero_grad ==
    /\ pc = "optimizer_D_zero_grad"
    /\ grad' = ZeroGrad(grad, optimizer_D_params)
    /\ pc' = "backward_D_A"
    /\ trace' = Append(trace, "optimizer_D_zero_grad")
    /\ UNCHANGED <<opt, cuda, data_transformation, error, netG, is_train, calls, param, requires_grad, real_A, real_B, fake_A,
                   fake_B, rec_A, rec_B, masked_rec_B, loss, fake_A_pool, fake_B_pool,
                   last_query, n_queries, all_single>>

\* backward_D_basic(netD, real, fake): the fake is detached, so only netD is in the graph
backward_D_basic(netD) == Backward(grad, {netD}, requires_grad)

backward_D_A ==
    /\ pc = "backward_D_A"
    /\ \E choice \in Choices(fake_B_pool, opt.pool_size, fake_B) :
          LET q == query(fake_B_pool, opt.pool_size, fake_B, choice)
          IN  /\ fake_B_pool' = q.images
              /\ last_query' = QueryRecord("fake_B_pool", fake_B_pool, fake_B, q)
    /\ n_queries' = n_queries + 1
    /\ all_single' = (all_single /\ Len(fake_B) = 1)
    /\ grad' = backward_D_basic("D_A")
    /\ pc' = "backward_D_B"
    /\ trace' = trace \o <<"backward_D_A", "fake_B_pool.query">>
    /\ UNCHANGED <<opt, cuda, data_transformation, error, netG, is_train, calls, param, requires_grad, real_A, real_B, fake_A,
                   fake_B, rec_A, rec_B, masked_rec_B, loss, fake_A_pool>>

\* mutant: backward_D_B queries the fake_B pool
backward_D_B_wrongPool ==
    /\ pc = "backward_D_B"
    /\ \E choice \in Choices(fake_B_pool, opt.pool_size, fake_A) :
          LET q == query(fake_B_pool, opt.pool_size, fake_A, choice)
          IN  /\ fake_B_pool' = q.images
              /\ last_query' = QueryRecord("fake_B_pool", fake_B_pool, fake_A, q)
    /\ grad' = backward_D_basic("D_B")
    /\ pc' = "optimizer_D_step"
    /\ trace' = trace \o <<"backward_D_B", "fake_B_pool.query">>
    /\ UNCHANGED <<opt, cuda, data_transformation, error, netG, is_train, calls, param, requires_grad, real_A, real_B, fake_A,
                   fake_B, rec_A, rec_B, masked_rec_B, loss, fake_A_pool, n_queries,
                   all_single>>

backward_D_B ==
    /\ pc = "backward_D_B"
    /\ \E choice \in Choices(fake_A_pool, opt.pool_size, fake_A) :
          LET q == query(fake_A_pool, opt.pool_size, fake_A, choice)
          IN  /\ fake_A_pool' = q.images
              /\ last_query' = QueryRecord("fake_A_pool", fake_A_pool, fake_A, q)
    /\ grad' = backward_D_basic("D_B")
    /\ pc' = "optimizer_D_step"
    /\ trace' = trace \o <<"backward_D_B", "fake_A_pool.query">>
    /\ UNCHANGED <<opt, cuda, data_transformation, error, netG, is_train, calls, param, requires_grad, real_A, real_B, fake_A,
                   fake_B, rec_A, rec_B, masked_rec_B, loss, fake_B_pool, n_queries,
                   all_single>>

optimizer_D_step ==
    /\ pc = "optimizer_D_step"
    /\ param' = Step(param, grad, optimizer_D_params)
    /\ pc' = "done"
    /\ trace' = Append(trace, "optimizer_D_step")
    /\ UNCHANGED <<opt, cuda, data_transformation, error, netG, is_train, calls, grad, requires_grad, real_A, real_B, fake_A,
                   fake_B, rec_A, rec_B, masked_rec_B, loss, fake_A_pool, fake_B_pool,
                   last_query, n_queries, all_single>>

(***************************************************************************)
(* The controller specification: set_input and optimize_parameters calls,  *)
(* training and inference, on a model built by __init__ with isTrain.      *)
(***************************************************************************)
ZeroLoss == [idt_A |-> 0, idt_B |-> 0, cycle_A |-> 0, cycle_B |-> 0]

InitModel ==
    /\ is_train = TRUE
    /\ data_transformation = FALSE
    /\ error = "none"
    /\ calls = 0
    /\ param = [n \in Nets |-> 0]
    /\ grad = [n \in Nets |-> 0]
    /\ requires_grad = [d \in Critics |-> TRUE]
    /\ masked_rec_B = <<>>
    /\ loss = ZeroLoss
    /\ fake_A_pool = <<>>
    /\ fake_B_pool = <<>>
    /\ last_query = NoQuery
    /\ n_queries = 0
    /\ all_single = TRUE

Init ==
    /\ InitModel
    /\ opt \in [pool_size : {0, 1, 3}, lambda_A : {10}, lambda_B : {10},
                lambda_identity : LambdaIdtVals]
    /\ cuda \in BOOLEAN
    /\ pc = "idle"
    /\ real_A = <<>>
    /\ real_B = <<>>
    /\ netG \in Translators(CtlVals)
    /\ fake_A = <<>> /\ fake_B = <<>> /\ rec_A = <<>> /\ rec_B = <<>>
    /\ trace = <<>>

Next ==
    \/ set_input(CtlVals)
    \/ optimize_parameters
    \/ forward(CtlVals)
    \/ set_requires_grad_False
    \/ optimizer_G_zero_grad
    \/ backward_G
    \/ optimizer_G_step
    \/ set_requires_grad_True
    \/ optimizer_D_zero_grad
    \/ backward_D_A
    \/ backward_D_B
    \/ optimizer_D_step

Spec == Init /\ [][Next]_vars

(***************************************************************************)
(* The replay-buffer specification: any sequence of query calls, with      *)
(* batches of any size (the empty one included), on one SignalPool of any  *)
(* configured pool_size.                                                   *)
(***************************************************************************)
Batches(V, max) == UNION {TensorsOfShape(V, n) : n \in 0..max}

SignalPool_query ==
    /\ n_queries < MaxQueries
    /\ \E batch \in Batches(PoolVals, MaxBatch) :
          \E choice \in Choices(fake_B_pool, opt.pool_size, batch) :
             LET q == query(fake_B_pool, opt.pool_size, batch, choice)
             IN  /\ fake_B_pool' = q.images
                 /\ last_query' = QueryRecord("fake_B_pool", fake_B_pool, batch, q)
                 /\ all_single' = (all_single /\ Len(batch) = 1)
    /\ n_queries' = n_queries + 1
    /\ UNCHANGED <<opt, cuda, data_transformation, error, netG, pc, is_train, calls, param, grad, requires_grad, real_A,
                   real_B, fake_A, fake_B, rec_A, rec_B, masked_rec_B, loss,
                   fake_A_pool, trace>>

InitPool ==
    /\ InitModel
    /\ opt \in [pool_size : (-1)..MaxPool, lambda_A : {10}, lambda_B : {10},
                lambda_identity : {0}]
    /\ cuda = TRUE
    /\ pc = "idle"
    /\ real_A = <<>> /\ real_B = <<>>
    /\ netG = [A |-> [v \in PoolVals |-> v], B |-> [v \in PoolVals |-> v]]
    /\ fake_A = <<>> /\ fake_B = <<>> /\ rec_A = <<>> /\ rec_B = <<>>
    /\ trace = <<>>

NextPool == SignalPool_query

SpecPool == InitPool /\ [][NextPool]_vars

(***************************************************************************)
(* The loss-composer specification: backward_G applied to every outcome of *)
(* a forward pass over LossVals, under every configured weight.            *)
(***************************************************************************)
InitLoss ==
    /\ is_train = TRUE
    /\ data_transformation \in BOOLEAN
    /\ cuda \in BOOLEAN
    /\ error = "none"
    /\ calls = 1
    /\ param = [n \in Nets |-> 0]
    /\ grad = [n \in Nets |-> 0]
    /\ requires_grad = [d \in Critics |-> FALSE]
    /\ masked_rec_B = <<>>
    /\ loss = ZeroLoss
    /\ fake_A_pool = <<>>
    /\ fake_B_pool = <<>>
    /\ last_query = NoQuery
    /\ n_queries = 0
    /\ all_single = TRUE
    /\ opt \in [pool_size : {0}, lambda_A : LambdaVals, lambda_B : LambdaVals,
                lambda_identity : LambdaIdtVals]
    /\ pc = "backward_G"
    /\ real_A \in Tensors(LossVals, LossLen)
    /\ real_B \in Tensors(LossVals, LossLen)
    /\ netG \in Translators(LossVals)
    /\ fake_B = Apply(netG.A, real_A)
    /\ rec_A = Apply(netG.B, fake_B)
    /\ fake_A = Apply(netG.B, real_B)
    /\ rec_B = Apply(netG.A, fake_A)
    /\ trace = <<"forward", "set_requires_grad_False", "optimizer_G_zero_grad">>

NextLoss == backward_G

SpecLoss == InitLoss /\ [][NextLoss]_vars

(***************************************************************************)
(* Properties.                                                             *)
(***************************************************************************)
RECURSIVE Count(_, _)
Count(seq, e) ==
    IF seq = <<>> THEN 0
    ELSE (IF Head(seq) = e THEN 1 ELSE 0) + Count(Tail(seq), e)

\* the first position of e in seq, 0 when it does not occur
Pos(seq, e) ==
    IF \E i \in DOMAIN seq : seq[i] = e
    THEN CHOOSE i \in DOMAIN seq : seq[i] = e /\ \A j \in 1..(i - 1) : seq[j] # e
    ELSE 0

QueryEvents == {"fake_B_pool.query", "fake_A_pool.query"}

IsStatement(e) == e \notin QueryEvents

\* the statements of optimize_parameters the call has executed, queries left out
Statements == SelectSeq(trace, IsStatement)

TrainingOrder ==
    <<"forward", "set_requires_grad_False", "optimizer_G_zero_grad", "backward_G",
      "optimizer_G_step", "set_requires_grad_True", "optimizer_D_zero_grad",
      "backward_D_A", "backward_D_B", "optimizer_D_step">>

IsPrefix(s, t) == Len(s) <= Len(t) /\ \A i \in DOMAIN s : s[i] = t[i]

GeneratorPhase == {"optimizer_G_zero_grad", "backward_G", "optimizer_G_step"}

CriticPhase == {"optimizer_D_zero_grad", "backward_D_A", "backward_D_B", "optimizer_D_step"}

Min(a, b) == IF a < b THEN a ELSE b

\* C1: a training call that runs to completion has made exactly one
\* generator-optimizer step, one critic-optimizer step, one query on the fake_B
\* pool and one on the fake_A pool; no call makes more than one of each; and
\* every query comes after the generator-optimizer step and before the
\* critic-optimizer step of its call.
C1_OneStepEachQueriesInCriticPhase ==
    /\ \A e \in {"optimizer_G_step", "optimizer_D_step"} \cup QueryEvents :
          /\ Count(trace, e) <= 1
          /\ (pc = "done" /\ is_train) => Count(trace, e) = 1
    /\ \A q \in QueryEvents :
          Count(trace, q) > 0 =>
             /\ is_train
             /\ Pos(trace, "optimizer_G_step") > 0
             /\ Pos(trace, "optimizer_G_step") < Pos(trace, q)
             /\ Pos(trace, "optimizer_D_step") > 0
                   => Pos(trace, q) < Pos(trace, "optimizer_D_step")

C1_Witness ==
    /\ pc = "done" /\ is_train /\ calls = 2
    /\ Count(trace, "fake_B_pool.query") = 1
    /\ Count(trace, "fake_A_pool.query") = 1
    /\ Count(trace, "optimizer_G_step") = 1
    /\ last_query.pool = "fake_A_pool"

\* C2: the statements of a training step run in the strict order forward,
\* freeze, zero generator gradients, backward_G, generator step, unfreeze, zero
\* critic gradients, backward_D_A, backward_D_B, critic step, none skipped;
\* both critics are frozen throughout the generator phase and trainable
\* throughout the critic phase and once the call has completed.
C2_StrictOrder ==
    is_train =>
       /\ IsPrefix(Statements, TrainingOrder)
       /\ pc = "done" => Statements = TrainingOrder
       /\ pc \in GeneratorPhase \cup {"set_requires_grad_True"}
             => \A d \in Critics : ~requires_grad[d]
       /\ pc \in CriticPhase \cup {"done"} => \A d \in Critics : requires_grad[d]

C2_Witness ==
    /\ pc = "done" /\ is_train /\ calls = 2
    /\ Statements = TrainingOrder
    /\ \A d \in Critics : requires_grad[d]

\* C3: no gradient leak.  The statements of the critic phase leave the
\* parameters (and the accumulated gradients) of G_A and G_B unchanged, and
\* the statements of the generator phase, which run with the critics frozen,
\* leave the parameters (and the accumulated gradients) of D_A and D_B unchanged.
C3_NoGradientLeak ==
    [][ /\ (is_train /\ pc \in CriticPhase) =>
              \A g \in {"G_A", "G_B"} : param'[g] = param[g] /\ grad'[g] = grad[g]
        /\ (is_train /\ pc \in GeneratorPhase) =>
              \A d \in Critics : param'[d] = param[d] /\ grad'[d] = grad[d]
      ]_vars

C3_Witness ==
    /\ pc = "done" /\ is_train /\ calls = 2
    /\ param["G_A"] = 2 /\ param["G_B"] = 2 /\ param["D_A"] = 2 /\ param["D_B"] = 2
    /\ grad["G_A"] = 1 /\ grad["D_A"] = 1

\* C5: an inference step only evaluates the forward pass (which fails when
\* real_A or real_B is missing): it changes no parameter and no gradient, makes no
\* optimizer step and no query, and leaves both buffers as they were.
C5_InferenceOnlyForward ==
    /\ [][ (~is_train /\ pc = "forward") =>
              /\ pc' = (IF HasInput THEN "done" ELSE "aborted")
              /\ UNCHANGED <<param, grad, requires_grad, fake_A_pool, fake_B_pool,
                             last_query, n_queries>>
         ]_vars
    /\ []((~is_train /\ pc \in {"done", "aborted"}) => trace = <<"forward">>)

C5_Witness ==
    /\ pc = "done" /\ ~is_train
    /\ trace = <<"forward">>
    /\ param["G_A"] > 0 /\ Len(fake_B_pool) > 0

\* C10: when the auxiliary classification signal (of the shape of fake_B)
\* differs in shape from real_B, backward_G aborts the training step with the
\* assertion's error: the call has executed forward, freeze, zero_grad and the
\* failing backward_G only, so no optimizer step and no query, and none of
\* these statements changes a parameter or a buffer.
C10_ShapeMismatchAborts ==
    /\ [][ /\ (is_train /\ pc = "backward_G" /\ Shape(fake_B) # Shape(real_B))
                 => (pc' = "aborted" /\ error' = "AssertionError")
           /\ (pc' = "aborted" \/ pc \in {"forward", "set_requires_grad_False",
                                          "optimizer_G_zero_grad"})
                 => UNCHANGED <<param, fake_A_pool, fake_B_pool>>
         ]_vars
    /\ []((pc = "aborted" /\ error = "AssertionError") =>
             /\ Shape(fake_B) # Shape(real_B)
             /\ trace = <<"forward", "set_requires_grad_False",
                          "optimizer_G_zero_grad", "backward_G">>)

C10_Witness ==
    /\ pc = "aborted" /\ error = "AssertionError" /\ calls = 2
    /\ Shape(fake_B) # Shape(real_B)
    /\ param["G_A"] = 1 /\ param["D_A"] = 1
    /\ Len(fake_B_pool) > 0

C6_IdentityMode ==
    opt.pool_size <= 0 =>
       /\ last_query.ret = last_query.batch
       /\ fake_B_pool = <<>>

C6_Witness ==
    /\ opt.pool_size = -1 /\ n_queries = 2
    /\ Len(last_query.batch) = 2
    /\ last_query.ret = last_query.batch
    /\ fake_B_pool = <<>>

\* C9: within one query call every sample is handled in the mode the
\* buffer's fill before the call selects: all appended when it was below
\* capacity, all in swap mode when it was at capacity; a call never switches
\* mode part-way through the batch, a batch of the size of the capacity
\* included.
C9_ModeFixedByFillBeforeCall ==
    (opt.pool_size > 0 /\ last_query.pool # "none") =>
       /\ Len(last_query.modes) = Len(last_query.batch)
       /\ \A i \in DOMAIN last_query.modes :
             last_query.modes[i] =
                IF last_query.before < opt.pool_size THEN "append" ELSE "swap"

\* a call that starts one short of capacity with a batch of two: both appended
C9_Witness ==
    /\ opt.pool_size = 2 /\ last_query.before = 1
    /\ Len(last_query.batch) = opt.pool_size
    /\ last_query.modes = <<"append", "append">>

\* C7 as stated: the positions zeroed before the comparison with real_B are
\* those where rec_B is at or below th; the others keep rec_B's value.
C7_ZeroedWhereRecBLow ==
    pc = "optimizer_G_step" =>
       /\ Len(masked_rec_B) = Len(rec_B)
       /\ \A i \in DOMAIN rec_B :
             masked_rec_B[i] = IF rec_B[i] <= th THEN 0 ELSE rec_B[i]

\* C7 amended: the positions zeroed before the comparison with real_B are
\* those where real_B is at or below th; where real_B is above th the tensor
\* keeps rec_B's value.
C7_ZeroedWhereRealBLow ==
    pc = "optimizer_G_step" =>
       /\ Len(masked_rec_B) = Len(rec_B)
       /\ \A i \in DOMAIN rec_B :
             /\ real_B[i] <= th => masked_rec_B[i] = 0
             /\ real_B[i] > th => masked_rec_B[i] = rec_B[i]

C7_Witness ==
    /\ pc = "optimizer_G_step"
    /\ real_B[1] = th /\ rec_B[1] = 72 /\ masked_rec_B[1] = 0
    /\ loss.cycle_B = 600

\* C8: the cycle and identity terms of the generator loss are scaled by the
\* configured lambda_A and lambda_B (10 unless configured otherwise).
C8_ConfiguredWeights ==
    pc = "optimizer_G_step" =>
       /\ loss.cycle_A = L1Loss(real_A, rec_A) * opt.lambda_A
       /\ loss.cycle_B = L1Loss(real_B, masked_rec_B) * opt.lambda_B
       /\ loss.idt_A = L1Loss(Apply(netG.A, real_B), real_B) * opt.lambda_B
                          * opt.lambda_identity
       /\ loss.idt_B = L1Loss(Apply(netG.B, real_A), real_A) * opt.lambda_A
                          * opt.lambda_identity

====
